---- MODULE Spec2Model ----
(***************************************************************************)
(* A model of the string interner: the suffix-trie index (sync/trie.rs),   *)
(* the concurrent Interner with its monitor (sync/interning.rs) and the    *)
(* single-owner Interner (unsync/interning.rs).                            *)
(***************************************************************************)
EXTENDS Integers, Sequences, FiniteSets, Bags, TLC

\* ------------------------------------------------------------ bounds
NThreads == 2
MaxLen == 2
MaxStore == 3
UMaxStore == 5
UMaxLen == 3
MaxRefs == 2
NSites == 2
MaxInserts == 2
MaxOffset == 2

\* ------------------------------------------------------- characters
\* "E" stands for a character whose UTF-8 encoding takes two bytes (U+00E9).
Chars == {"a", "E"}

\* char::len_utf8
Width(c) == IF c = "E" THEN 2 ELSE 1

Strings == UNION {[1..n -> Chars] : n \in 0..MaxLen}

\* The strings passed to the single-owner Interner.
UStrings == UNION {[1..n -> Chars] : n \in 0..UMaxLen}

\* The start offsets passed to Trie::insert when the Trie is used directly.
Offsets == 0..MaxOffset

Threads == 1..NThreads
Sites == 1..NSites

\* A byte of the store is <<c, i>>: the i-th byte of the encoding of c.
RECURSIVE Encode(_)
Encode(s) ==
  IF s = <<>> THEN <<>>
  ELSE [i \in 1..Width(Head(s)) |-> <<Head(s), i>>] \o Encode(Tail(s))

\* String::push_str
push_str(store, s) == store \o Encode(s)

\* str::is_char_boundary
is_char_boundary(store, i) ==
  \/ i = 0
  \/ i = Len(store)
  \/ (i < Len(store) /\ store[i + 1][2] = 1)

\* &store[span]: the slice is defined when the range is ordered, in bounds
\* and on character boundaries; otherwise the index expression panics.
SliceOk(store, sp) ==
  /\ sp[1] <= sp[2]
  /\ sp[2] <= Len(store)
  /\ is_char_boundary(store, sp[1])
  /\ is_char_boundary(store, sp[2])

RECURSIVE Decode(_)
Decode(bytes) ==
  IF bytes = <<>> THEN <<>>
  ELSE IF Head(bytes)[2] = 1 THEN <<Head(bytes)[1]>> \o Decode(Tail(bytes))
  ELSE Decode(Tail(bytes))

Slice(store, sp) == Decode(SubSeq(store, sp[1] + 1, sp[2]))

\* ------------------------------------------------------------- trie
\* A Trie node is identified by the path of characters from the root; the
\* index is the function from the paths of the existing nodes to their span.
span(start, length) == <<start, start + length>>

TrieNew == (<<>> :> span(0, 0))

\* A variant of Trie::get that returns the span of the last node reached
\* when a child is missing.
RECURSIVE GetFrom_Ancestor(_, _, _)
GetFrom_Ancestor(idx, key, n) ==
  IF n = Len(key) THEN {idx[key]}
  ELSE IF SubSeq(key, 1, n + 1) \notin DOMAIN idx THEN {idx[SubSeq(key, 1, n)]}
  ELSE GetFrom_Ancestor(idx, key, n + 1)

\* Trie::get: walk down from the root, None ({}) at the first missing child.
RECURSIVE GetFrom(_, _, _)
GetFrom(idx, key, n) ==
  IF n = Len(key) THEN {idx[key]}
  ELSE IF SubSeq(key, 1, n + 1) \notin DOMAIN idx THEN {}
  ELSE GetFrom(idx, key, n + 1)

get(idx, key) == GetFrom(idx, key, 0)

\* A variant of InsertNode that overwrites the span of an existing node.
InsertNode_Overwrite(idx, p, start, n) ==
  [q \in DOMAIN idx \cup {p} |-> IF q = p THEN span(start, n) ELSE idx[q]]

\* Trie::insert_one: n is span_len, the number of characters walked so far.
InsertNode(idx, p, start, n) ==
  IF p \in DOMAIN idx THEN idx ELSE idx @@ (p :> span(start, n))

RECURSIVE InsertOneFrom(_, _, _, _)
InsertOneFrom(idx, key, start, n) ==
  IF n = Len(key) THEN idx
  ELSE InsertOneFrom(InsertNode(idx, SubSeq(key, 1, n + 1), start, n + 1),
                     key, start, n + 1)

\* A variant of insert_one that gives the node it ends at the span of this
\* call when the key is empty, overwriting the root's.
insert_one_RootOverwrite(idx, key, start) ==
  LET idx1 == IF key = <<>> THEN [idx EXCEPT ![<<>>] = span(start, 0)] ELSE idx
      idx2 == InsertOneFrom(idx1, key, start, 0)
  IN  [index |-> idx2, span |-> idx2[key]]

insert_one(idx, key, start) ==
  LET idx2 == InsertOneFrom(idx, key, start, 0)
  IN  [index |-> idx2, span |-> idx2[key]]

\* A variant of the loop of Trie::insert that registers no suffix.
InsertSuffixes_None(idx, key, start) == idx

\* A variant of the loop of Trie::insert that advances start by the encoded
\* width of the character consumed instead of by one.
RECURSIVE InsertSuffixes_ByteStep(_, _, _)
InsertSuffixes_ByteStep(idx, key, start) ==
  IF key = <<>> THEN idx
  ELSE InsertSuffixes_ByteStep(
         InsertOneFrom(idx, Tail(key), start + Width(Head(key)), 0),
         Tail(key), start + Width(Head(key)))

\* The loop of Trie::insert: start += 1; stop when key is exhausted; else
\* insert_one of what is left of key after the character just consumed.
RECURSIVE InsertSuffixes(_, _, _)
InsertSuffixes(idx, key, start) ==
  IF key = <<>> THEN idx
  ELSE InsertSuffixes(insert_one(idx, Tail(key), start + 1).index,
                      Tail(key), start + 1)

insert(idx, key, start) ==
  LET r == insert_one(idx, key, start)
  IN  [index |-> InsertSuffixes(r.index, key, start), span |-> r.span]

\* ------------------------------------------------- intern_uncontested
\* A variant of intern_uncontested that appends the string even when it is
\* found in the index.
intern_uncontested_AlwaysPush(st, idx, s) ==
  LET hit == get(idx, s)
  IN  IF hit # {}
      THEN [store |-> push_str(st, s), index |-> idx, span |-> CHOOSE x \in hit : TRUE]
      ELSE LET r == insert(idx, s, Len(st))
           IN  [store |-> push_str(st, s), index |-> r.index, span |-> r.span]

\* A variant of intern_uncontested that reads the start offset after the
\* append instead of before it.
intern_uncontested_StartAfterPush(st, idx, s) ==
  LET hit == get(idx, s)
  IN  IF hit # {}
      THEN [store |-> st, index |-> idx, span |-> CHOOSE x \in hit : TRUE]
      ELSE LET r == insert(idx, s, Len(push_str(st, s)))
           IN  [store |-> push_str(st, s), index |-> r.index, span |-> r.span]

intern_uncontested(st, idx, s) ==
  LET hit == get(idx, s)
  IN  IF hit # {}
      THEN [store |-> st, index |-> idx, span |-> CHOOSE x \in hit : TRUE]
      ELSE LET r == insert(idx, s, Len(st))
           IN  [store |-> push_str(st, s), index |-> r.index, span |-> r.span]

\* ------------------------------------------------------------ state
VARIABLES
  mode,        \* "sync": sync::Interner is in use; "unsync": unsync::Interner;
               \* "trie": a Trie is used directly, as in tests::trie;
               \* "pair": one thread makes every call on a sync::Interner
               \* and on an unsync::Interner
  debug,       \* cfg(debug_assertions) of the build (read by unsync get_ref)
  store,       \* InternerInternal.store
  index,       \* InternerInternal.index
  refs,        \* InternerInternal.refs
  local_refs,  \* InternerInternal.local_refs: a map, threads without entry absent
  last_ref,    \* InternerInternal.last_ref: {} is None, {site} is Some(site)
  pc,          \* per thread: "idle", "waiting" (in cond.wait), "notified"
  call,        \* per thread: the intern/try_intern call it is suspended in
  views,       \* the live sync InternRefs, a bag of [holder, site]
  handles,     \* the sync Interns handed out so far, with the string asked for
  lock,        \* Interner.internal: Free, or the thread that holds the mutex
  ustore,      \* unsync Interner.store
  uindex,      \* unsync Interner.index
  urefs,       \* unsync Interner.refs
  ulast_ref,   \* unsync Interner.last_ref
  uviews,      \* the live unsync InternRefs, a bag of [site]
  uhandles,    \* the unsync Interns handed out so far
  trie,        \* the Trie used directly
  inserted,    \* the <<key, start>> pairs passed to trie.insert so far
  last         \* the most recent call and how it ended

syncVars == <<store, index, refs, local_refs, last_ref, pc, call, views, handles, lock>>
unsyncVars == <<ustore, uindex, urefs, ulast_ref, uviews, uhandles>>
trieVars == <<trie, inserted>>
vars == <<mode, debug, syncVars, unsyncVars, trieVars, last>>

NoCall == [op |-> "none", s |-> <<>>]
NoHandle == [str |-> <<>>, span |-> <<0, 0>>]
Owner == 0
Free == 0

\* The record kept in last: op is the operation, t the calling thread (Owner
\* in single-owner mode), s the string passed to intern/try_intern, h the
\* handle get_ref was called on or the span of the view released, kind how the
\* call ended ("ok", "err", "fatal", "suspended"), span the span of the
\* handle returned, tag the call-site tag of the diagnostic, text the text of
\* the view returned, resumed whether the call returned from cond.wait.
Ev(op, t, s, h, kind, sp, tag, text) ==
  [op |-> op, t |-> t, s |-> s, h |-> h, kind |-> kind, span |-> sp,
   tag |-> tag, text |-> text, resumed |-> FALSE]

Interner_new ==
  /\ store = <<>>
  /\ index = TrieNew
  /\ refs = 0
  /\ local_refs = [t \in {} |-> 0]
  /\ last_ref = {}
  /\ lock = Free

UInterner_new ==
  /\ ustore = <<>>
  /\ uindex = TrieNew
  /\ urefs = 0
  /\ ulast_ref = {}

Init ==
  /\ \/ mode = "sync" /\ debug = TRUE
     \/ mode = "unsync" /\ debug \in BOOLEAN
     \/ mode = "trie" /\ debug = TRUE
  /\ Interner_new
  /\ UInterner_new
  /\ pc = [t \in Threads |-> "idle"]
  /\ call = [t \in Threads |-> NoCall]
  /\ views = EmptyBag
  /\ handles = {}
  /\ uviews = EmptyBag
  /\ uhandles = {}
  /\ trie = TrieNew
  /\ inserted = <<>>
  /\ last = Ev("new", Owner, <<>>, NoHandle, "ok", <<0, 0>>, {}, <<>>)

\* Bytes the suspended calls may still append: a call is accepted when its
\* string would still fit into MaxStore bytes if it and the suspended calls
\* all appended.
RECURSIVE PendingBytes(_)
PendingBytes(ts) ==
  IF ts = {} THEN 0
  ELSE LET t == CHOOSE x \in ts : TRUE
       IN  Len(Encode(call[t].s)) + PendingBytes(ts \ {t})

Fits(st, idx, s) ==
  Len(st) + Len(Encode(s)) + PendingBytes(Threads) <= MaxStore

\* --------------------------------------------------- sync::Interner
\* A variant of the check of the local count that is off by one.
LocalRefsHeld_OffByOne(lr, t) == t \in DOMAIN lr /\ lr[t] > 1

\* "check local refs": the calling thread has an entry with a count above 0.
LocalRefsHeld(lr, t) == t \in DOMAIN lr /\ lr[t] > 0

\* the else branch: a thread without entry gets one with count 0.
LocalRefsInit(lr, t) == IF t \in DOMAIN lr THEN lr ELSE lr @@ (t :> 0)

\* "check nonlocal refs": the test that decides whether the call waits.
MustWait(r) == r > 0

\* The part of intern/try_intern that runs with the lock finally held:
\* intern_uncontested and the construction of the Intern.
Complete(op, t, s, woken) ==
  LET r == intern_uncontested(store, index, s)
  IN  /\ store' = r.store
      /\ index' = r.index
      /\ handles' = handles \cup {[str |-> s, span |-> r.span]}
      /\ last' = [Ev(op, t, s, NoHandle, "ok", r.span, {}, <<>>)
                    EXCEPT !.resumed = woken]

\* lock.last_ref.unwrap(): a panic when no call site was recorded.
Unwrap(tag, kind) == IF tag = {} THEN "fatal" ELSE kind

\* A variant of cond.wait that parks the thread with the mutex still held.
cond_wait_KeepLock(t) == t

\* cond.wait(&mut lock): the mutex is unlocked atomically with the parking
\* of the thread; the value is the holder of the mutex while t is parked.
cond_wait(t) == Free

\* Interner::intern / Interner::try_intern up to the wait or the return;
\* selfKind is what self-contention ends in ("fatal" or "err").
Enter(op, selfKind, t, s) ==
  /\ mode = "sync"
  /\ pc[t] = "idle"
  /\ lock = Free
  /\ Fits(store, index, s)
  /\ IF LocalRefsHeld(local_refs, t)
     THEN /\ last' = Ev(op, t, s, NoHandle, Unwrap(last_ref, selfKind),
                         <<0, 0>>, last_ref, <<>>)
          /\ UNCHANGED <<syncVars>>
     ELSE /\ local_refs' = LocalRefsInit(local_refs, t)
          /\ IF MustWait(refs)
             THEN /\ pc' = [pc EXCEPT ![t] = "waiting"]
                  /\ call' = [call EXCEPT ![t] = [op |-> op, s |-> s]]
                  /\ lock' = cond_wait(t)
                  /\ last' = Ev(op, t, s, NoHandle, "suspended", <<0, 0>>, {}, <<>>)
                  /\ UNCHANGED <<store, index, handles>>
             ELSE /\ Complete(op, t, s, FALSE)
                  /\ lock' = Free
                  /\ UNCHANGED <<pc, call>>
          /\ UNCHANGED <<refs, last_ref, views>>
  /\ UNCHANGED <<mode, debug, unsyncVars, trieVars>>

intern(t, s) == Enter("intern", "fatal", t, s)

try_intern(t, s) == Enter("try_intern", "err", t, s)

\* The return from cond.wait: the notified thread has the lock again and
\* goes on to intern_uncontested.
Resume(t) ==
  /\ mode = "sync"
  /\ pc[t] = "notified"
  /\ lock = Free
  /\ Complete(call[t].op, t, call[t].s, TRUE)
  /\ lock' = Free
  /\ pc' = [pc EXCEPT ![t] = "idle"]
  /\ call' = [call EXCEPT ![t] = NoCall]
  /\ UNCHANGED <<refs, local_refs, last_ref, views>>
  /\ UNCHANGED <<mode, debug, unsyncVars, trieVars>>

\* the increment of the calling thread's count in get_ref
LocalRefsInc(lr, t) ==
  IF t \in DOMAIN lr THEN [lr EXCEPT ![t] = @ + 1] ELSE lr @@ (t :> 1)

\* Intern::get_ref; the slice expression panics after the counts are raised.
get_ref(t, h, site) ==
  /\ mode = "sync"
  /\ pc[t] = "idle"
  /\ h \in handles
  /\ refs < MaxRefs
  /\ lock = Free
  /\ lock' = Free
  /\ last_ref' = {site}
  /\ refs' = refs + 1
  /\ local_refs' = LocalRefsInc(local_refs, t)
  /\ IF SliceOk(store, h.span)
     THEN /\ views' = views (+) SetToBag({[holder |-> t, site |-> site]})
          /\ last' = Ev("get_ref", t, <<>>, h, "ok", h.span, {site}, Slice(store, h.span))
     ELSE /\ views' = views
          /\ last' = Ev("get_ref", t, <<>>, h, "fatal", h.span, {site}, <<>>)
  /\ UNCHANGED <<store, index, pc, call, handles>>
  /\ UNCHANGED <<mode, debug, unsyncVars, trieVars>>

\* A variant of the wakeup that wakes nobody.
notify_all_None(p) == p

\* cond.notify_all: every thread in cond.wait is woken.
notify_all(p) == [t \in Threads |-> IF p[t] = "waiting" THEN "notified" ELSE p[t]]

\* InternRef::drop run by the thread that holds the view.
drop(t, v) ==
  /\ mode = "sync"
  /\ pc[t] = "idle"
  /\ v \in BagToSet(views)
  /\ v.holder = t
  /\ lock = Free
  /\ lock' = Free
  /\ views' = views (-) SetToBag({v})
  /\ IF t \notin DOMAIN local_refs
     THEN \* unreachable!()
          /\ last' = Ev("drop", t, <<>>, NoHandle, "fatal", <<0, 0>>, {v.site}, <<>>)
          /\ UNCHANGED <<refs, local_refs, pc>>
     ELSE IF local_refs[t] = 0
     THEN /\ last' = Ev("drop", t, <<>>, NoHandle, "fatal", <<0, 0>>, {v.site}, <<>>)
          /\ UNCHANGED <<refs, local_refs, pc>>
     ELSE /\ local_refs' = [local_refs EXCEPT ![t] = @ - 1]
          /\ IF refs = 0
             THEN /\ last' = Ev("drop", t, <<>>, NoHandle, "fatal", <<0, 0>>, {v.site}, <<>>)
                  /\ UNCHANGED <<refs, pc>>
             ELSE /\ refs' = refs - 1
                  /\ pc' = IF refs' = 0 THEN notify_all(pc) ELSE pc
                  /\ last' = Ev("drop", t, <<>>, NoHandle, "ok", <<0, 0>>, {v.site}, <<>>)
  /\ UNCHANGED <<store, index, last_ref, call, handles>>
  /\ UNCHANGED <<mode, debug, unsyncVars, trieVars>>

\* InternRef is Send: a view is moved from the thread holding it to another.
send(v, t2) ==
  /\ mode = "sync"
  /\ v \in BagToSet(views)
  /\ t2 # v.holder
  /\ pc[v.holder] = "idle"
  /\ pc[t2] = "idle"
  /\ views' = (views (-) SetToBag({v})) (+) SetToBag({[v EXCEPT !.holder = t2]})
  /\ last' = Ev("send", v.holder, <<>>, NoHandle, "ok", <<0, 0>>, {v.site}, <<>>)
  /\ UNCHANGED <<store, index, refs, local_refs, last_ref, pc, call, handles, lock>>
  /\ UNCHANGED <<mode, debug, unsyncVars, trieVars>>

\* ------------------------------------------------- unsync::Interner
\* A call is accepted when its string is in the index already or would
\* still fit into UMaxStore bytes.
UFits(s) ==
  \/ get(uindex, s) # {}
  \/ Len(ustore) + Len(Encode(s)) <= UMaxStore

\* What Interner::try_intern does: Err while a view is outstanding, and the
\* unwrap of last_ref panics if no tag was ever recorded; otherwise the
\* lookup, and on a miss the append and the insert.
try_intern_result(s) ==
  IF urefs > 0
  THEN [kind |-> Unwrap(ulast_ref, "err"), store |-> ustore,
        index |-> uindex, span |-> <<0, 0>>, tag |-> ulast_ref]
  ELSE LET r == intern_uncontested(ustore, uindex, s)
       IN  [kind |-> "ok", store |-> r.store, index |-> r.index,
            span |-> r.span, tag |-> {}]

\* Interner::intern: try_intern, and a panic in place of its Err.
intern_result(s) ==
  LET r == try_intern_result(s)
  IN  IF r.kind = "err" THEN [r EXCEPT !.kind = "fatal"] ELSE r

UCall(op, r, s) ==
  /\ mode = "unsync"
  /\ UFits(s)
  /\ ustore' = r.store
  /\ uindex' = r.index
  /\ uhandles' = IF r.kind = "ok"
                 THEN uhandles \cup {[str |-> s, span |-> r.span]}
                 ELSE uhandles
  /\ last' = Ev(op, Owner, s, NoHandle, r.kind, r.span, r.tag, <<>>)
  /\ UNCHANGED <<urefs, ulast_ref, uviews>>
  /\ UNCHANGED <<mode, debug, syncVars, trieVars>>

Uintern(s) == UCall("intern", intern_result(s), s)

Utry_intern(s) == UCall("try_intern", try_intern_result(s), s)

\* get_ref records the call site only in a build with debug_assertions.
RecordSite(old, site) == IF debug THEN {site} ELSE old

Uget_ref(h, site) ==
  /\ mode = "unsync"
  /\ h \in uhandles
  /\ urefs < MaxRefs
  /\ ulast_ref' = RecordSite(ulast_ref, site)
  /\ urefs' = urefs + 1
  /\ IF SliceOk(ustore, h.span)
     THEN /\ uviews' = uviews (+) SetToBag({[site |-> site]})
          /\ last' = Ev("get_ref", Owner, <<>>, h, "ok", h.span, {site}, Slice(ustore, h.span))
     ELSE /\ uviews' = uviews
          /\ last' = Ev("get_ref", Owner, <<>>, h, "fatal", h.span, {site}, <<>>)
  /\ UNCHANGED <<ustore, uindex, uhandles>>
  /\ UNCHANGED <<mode, debug, syncVars, trieVars>>

Udrop(v) ==
  /\ mode = "unsync"
  /\ v \in BagToSet(uviews)
  /\ uviews' = uviews (-) SetToBag({v})
  /\ IF urefs = 0
     THEN /\ urefs' = urefs
          /\ last' = Ev("drop", Owner, <<>>, NoHandle, "fatal", <<0, 0>>, {v.site}, <<>>)
     ELSE /\ urefs' = urefs - 1
          /\ last' = Ev("drop", Owner, <<>>, NoHandle, "ok", <<0, 0>>, {v.site}, <<>>)
  /\ UNCHANGED <<ustore, uindex, ulast_ref, uhandles>>
  /\ UNCHANGED <<mode, debug, syncVars, trieVars>>

\* ------------------------------------------------------ Trie, directly
\* trie.insert(key, start) on the Trie under test.
Tinsert(s, o) ==
  /\ mode = "trie"
  /\ Len(inserted) < MaxInserts
  /\ LET r == insert(trie, s, o)
     IN  /\ trie' = r.index
         /\ last' = Ev("insert", Owner, s, NoHandle, "ok", r.span, {}, <<>>)
  /\ inserted' = Append(inserted, <<s, o>>)
  /\ UNCHANGED <<mode, debug, syncVars, unsyncVars>>

\* trie.get(key): kind is "some" with the span found, or "none".
Tget(s) ==
  /\ mode = "trie"
  /\ LET hit == get(trie, s)
     IN  last' = IF hit = {}
                 THEN Ev("get", Owner, s, NoHandle, "none", <<0, 0>>, {}, <<>>)
                 ELSE Ev("get", Owner, s, NoHandle, "some",
                         CHOOSE x \in hit : TRUE, {}, <<>>)
  /\ UNCHANGED <<mode, debug, syncVars, unsyncVars, trieVars>>

\* ------------------------------------------------------------- spec
Next ==
  \/ \E t \in Threads, s \in Strings : intern(t, s)
  \/ \E t \in Threads, s \in Strings : try_intern(t, s)
  \/ \E t \in Threads : Resume(t)
  \/ \E t \in Threads, h \in handles, site \in Sites : get_ref(t, h, site)
  \/ \E t \in Threads, v \in BagToSet(views) : drop(t, v)
  \/ \E v \in BagToSet(views), t \in Threads : send(v, t)
  \/ \E s \in UStrings : Uintern(s)
  \/ \E s \in UStrings : Utry_intern(s)
  \/ \E h \in uhandles, site \in Sites : Uget_ref(h, site)
  \/ \E v \in BagToSet(uviews) : Udrop(v)
  \/ \E s \in Strings, o \in Offsets : Tinsert(s, o)
  \/ \E s \in Strings : Tget(s)

Spec == Init /\ [][Next]_vars

\* The notified thread gets the lock back: parking_lot's mutex hands it over
\* at the latest after its fairness timeout.
FairSpec == Spec /\ \A t \in Threads : WF_vars(Resume(t))

\* ------------------------------------- both Interners, one participant
\* The thread that makes the calls.
Caller == CHOOSE t \in Threads : \A u \in Threads : t <= u

\* The record kept in last when both Interners are called: the outcome of
\* the sync::Interner as in Ev, and that of the unsync::Interner in ukind,
\* uspan, utag and utext.
PairEv(e, ukind, uspan, utag, utext) ==
  [op |-> e.op, t |-> e.t, s |-> e.s, h |-> e.h, kind |-> e.kind,
   span |-> e.span, tag |-> e.tag, text |-> e.text, resumed |-> e.resumed,
   ukind |-> ukind, uspan |-> uspan, utag |-> utag, utext |-> utext]

PairInit ==
  /\ mode = "pair"
  /\ debug \in BOOLEAN
  /\ Interner_new
  /\ UInterner_new
  /\ pc = [t \in Threads |-> "idle"]
  /\ call = [t \in Threads |-> NoCall]
  /\ views = EmptyBag
  /\ handles = {}
  /\ uviews = EmptyBag
  /\ uhandles = {}
  /\ trie = TrieNew
  /\ inserted = <<>>
  /\ last = PairEv(Ev("new", Owner, <<>>, NoHandle, "ok", <<0, 0>>, {}, <<>>),
                   "ok", <<0, 0>>, {}, <<>>)

\* What sync intern/try_intern called by thread t does in the current
\* state: self-contention, the wait, or intern_uncontested.
SyncOutcome(selfKind, t, s) ==
  IF LocalRefsHeld(local_refs, t)
  THEN [kind |-> Unwrap(last_ref, selfKind), span |-> <<0, 0>>,
        tag |-> last_ref, store |-> store, index |-> index,
        local_refs |-> local_refs]
  ELSE IF MustWait(refs)
  THEN [kind |-> "suspended", span |-> <<0, 0>>, tag |-> {},
        store |-> store, index |-> index,
        local_refs |-> LocalRefsInit(local_refs, t)]
  ELSE LET r == intern_uncontested(store, index, s)
       IN  [kind |-> "ok", span |-> r.span, tag |-> {},
            store |-> r.store, index |-> r.index,
            local_refs |-> LocalRefsInit(local_refs, t)]

\* The same intern/try_intern call on both Interners; ur is what the
\* unsync::Interner does.
PairCall(op, selfKind, ur, s) ==
  /\ mode = "pair"
  /\ pc[Caller] = "idle"
  /\ lock = Free
  /\ Fits(store, index, s)
  /\ Len(ustore) + Len(Encode(s)) <= MaxStore
  /\ LET sr == SyncOutcome(selfKind, Caller, s)
         wait == sr.kind = "suspended"
     IN  /\ store' = sr.store
         /\ index' = sr.index
         /\ local_refs' = sr.local_refs
         /\ handles' = IF sr.kind = "ok"
                        THEN handles \cup {[str |-> s, span |-> sr.span]}
                        ELSE handles
         /\ pc' = IF wait THEN [pc EXCEPT ![Caller] = "waiting"] ELSE pc
         /\ call' = IF wait THEN [call EXCEPT ![Caller] = [op |-> op, s |-> s]]
                     ELSE call
         /\ lock' = IF wait THEN cond_wait(Caller) ELSE Free
         /\ last' = PairEv(Ev(op, Caller, s, NoHandle, sr.kind, sr.span, sr.tag, <<>>),
                           ur.kind, ur.span, ur.tag, <<>>)
  /\ ustore' = ur.store
  /\ uindex' = ur.index
  /\ uhandles' = IF ur.kind = "ok"
                 THEN uhandles \cup {[str |-> s, span |-> ur.span]}
                 ELSE uhandles
  /\ UNCHANGED <<mode, debug, refs, last_ref, views, urefs, ulast_ref, uviews, trieVars>>

Pintern(s) == PairCall("intern", "fatal", intern_result(s), s)

Ptry_intern(s) == PairCall("try_intern", "err", try_intern_result(s), s)

\* get_ref on a handle both Interners returned, from the same call site.
Pget_ref(h, site) ==
  /\ mode = "pair"
  /\ pc[Caller] = "idle"
  /\ lock = Free
  /\ h \in handles \cap uhandles
  /\ refs < MaxRefs /\ urefs < MaxRefs
  /\ last_ref' = {site}
  /\ refs' = refs + 1
  /\ local_refs' = LocalRefsInc(local_refs, Caller)
  /\ views' = IF SliceOk(store, h.span)
              THEN views (+) SetToBag({[holder |-> Caller, site |-> site]})
              ELSE views
  /\ ulast_ref' = RecordSite(ulast_ref, site)
  /\ urefs' = urefs + 1
  /\ uviews' = IF SliceOk(ustore, h.span)
               THEN uviews (+) SetToBag({[site |-> site]})
               ELSE uviews
  /\ last' = PairEv(
       IF SliceOk(store, h.span)
       THEN Ev("get_ref", Caller, <<>>, h, "ok", h.span, {site}, Slice(store, h.span))
       ELSE Ev("get_ref", Caller, <<>>, h, "fatal", h.span, {site}, <<>>),
       IF SliceOk(ustore, h.span) THEN "ok" ELSE "fatal", h.span, {site},
       IF SliceOk(ustore, h.span) THEN Slice(ustore, h.span) ELSE <<>>)
  /\ UNCHANGED <<mode, debug, store, index, pc, call, handles, lock,
                 ustore, uindex, uhandles, trieVars>>

\* What sync InternRef::drop run by thread t does to the counts.
DropOutcome(t) ==
  IF t \notin DOMAIN local_refs
  THEN [kind |-> "fatal", refs |-> refs, local_refs |-> local_refs]
  ELSE IF local_refs[t] = 0
  THEN [kind |-> "fatal", refs |-> refs, local_refs |-> local_refs]
  ELSE IF refs = 0
  THEN [kind |-> "fatal", refs |-> refs,
        local_refs |-> [local_refs EXCEPT ![t] = @ - 1]]
  ELSE [kind |-> "ok", refs |-> refs - 1,
        local_refs |-> [local_refs EXCEPT ![t] = @ - 1]]

\* The release of the two views one get_ref call site produced.
Pdrop(site) ==
  /\ mode = "pair"
  /\ pc[Caller] = "idle"
  /\ lock = Free
  /\ [holder |-> Caller, site |-> site] \in BagToSet(views)
  /\ [site |-> site] \in BagToSet(uviews)
  /\ views' = views (-) SetToBag({[holder |-> Caller, site |-> site]})
  /\ uviews' = uviews (-) SetToBag({[site |-> site]})
  /\ LET d == DropOutcome(Caller)
     IN  /\ refs' = d.refs
         /\ local_refs' = d.local_refs
         /\ pc' = IF d.kind = "ok" /\ d.refs = 0 THEN notify_all(pc) ELSE pc
         /\ urefs' = IF urefs = 0 THEN urefs ELSE urefs - 1
         /\ last' = PairEv(Ev("drop", Caller, <<>>, NoHandle, d.kind, <<0, 0>>, {site}, <<>>),
                           IF urefs = 0 THEN "fatal" ELSE "ok", <<0, 0>>, {site}, <<>>)
  /\ UNCHANGED <<mode, debug, store, index, last_ref, call, handles, lock,
                 ustore, uindex, ulast_ref, uhandles, trieVars>>

PairNext ==
  \/ \E s \in Strings : Pintern(s)
  \/ \E s \in Strings : Ptry_intern(s)
  \/ \E h \in handles \cap uhandles, site \in Sites : Pget_ref(h, site)
  \/ \E site \in Sites : Pdrop(site)

PairSpec == PairInit /\ [][PairNext]_vars

\* ------------------------------------------------- derived quantities
RECURSIVE SumLocal(_, _)
SumLocal(lr, ts) ==
  IF ts = {} THEN 0
  ELSE LET t == CHOOSE x \in ts : TRUE
       IN  lr[t] + SumLocal(lr, ts \ {t})

\* The views thread t holds.
HeldBy(t) == {v \in BagToSet(views) : v.holder = t}

IsSubstring(s, u) ==
  \E i \in 1..(Len(u) + 1), j \in 0..Len(u) : SubSeq(u, i, j) = s

\* A step in which a thread calls intern/try_intern (as opposed to the
\* step in which a suspended call goes on).
SyncCallStep(ops) ==
  /\ mode = "sync"
  /\ last'.op \in ops
  /\ ~last'.resumed

UnsyncCallStep(ops) ==
  /\ mode = "unsync"
  /\ last'.op \in ops

\* ------------------------------------------------------------ claims

\* C1: in concurrent mode the buffer is appended to, and the index inserted
\* into, only in a state where the global outstanding-view count is zero;
\* in particular the append of a call that was suspended and notified
\* happens only if the count is zero when it has the lock again.
C1_NoAppendWhileViewsOutstanding ==
  [][(mode = "sync" /\ (store' # store \/ index' # index)) => refs = 0]_vars

\* C2: in both modes intern called by a participant whose own
\* outstanding-view count is nonzero halts fatally, without suspending,
\* without returning a handle and without changing the buffer, the index or
\* any counter.
C2_Step ==
  /\ (/\ SyncCallStep({"intern"})
      /\ last'.t \in DOMAIN local_refs
      /\ local_refs[last'.t] > 0)
     => (last'.kind = "fatal" /\ UNCHANGED syncVars)
  /\ (UnsyncCallStep({"intern"}) /\ urefs > 0)
     => (last'.kind = "fatal" /\ UNCHANGED unsyncVars)

C2_InternSelfContentionIsFatal == [][C2_Step]_vars

C2_Witness ==
  /\ mode = "sync"
  /\ last.op = "intern"
  /\ last.kind = "fatal"
  /\ last.t \in Threads
  /\ HeldBy(last.t) # {}
  /\ refs > 0

\* C3: try_intern returns the self-contention error if and only if the
\* caller's own outstanding-view count is nonzero at the call; otherwise it
\* suspends (concurrent mode, views of others outstanding) or returns Ok, and
\* a suspended call returns Ok when it goes on.
C3_SyncStep ==
  /\ SyncCallStep({"try_intern"})
     => /\ last'.kind = "err"
           <=> (last'.t \in DOMAIN local_refs /\ local_refs[last'.t] > 0)
        /\ last'.kind \in {"err", "ok", "suspended"}
        /\ last'.kind = "suspended" <=> (last'.kind # "err" /\ refs > 0)
  /\ (mode = "sync" /\ last'.op = "try_intern" /\ last'.resumed)
     => last'.kind = "ok"

C3_UnsyncStep ==
  UnsyncCallStep({"try_intern"})
    => /\ last'.kind = "err" <=> urefs > 0
       /\ last'.kind = "ok" <=> urefs = 0

C3_TryInternErrIffOwnCount == [][C3_SyncStep /\ C3_UnsyncStep]_vars

\* C4: a try_intern that returns the self-contention error leaves the
\* buffer, the index and every count as they were, and when the participant
\* it was returned to holds no view (it has released them all), its next
\* try_intern/intern does not end in the self-contention error or halt.
C4_FrameStep ==
  /\ (SyncCallStep({"try_intern"}) /\ last'.kind = "err")
     => UNCHANGED syncVars
  /\ (UnsyncCallStep({"try_intern"}) /\ last'.kind = "err")
     => UNCHANGED unsyncVars

C4_RetryStep ==
  /\ (/\ SyncCallStep({"intern", "try_intern"})
      /\ last.op = "try_intern" /\ last.kind = "err" /\ last.t = last'.t
      /\ HeldBy(last'.t) = {})
     => last'.kind \in {"ok", "suspended"}
  /\ (/\ UnsyncCallStep({"intern", "try_intern"})
      /\ last.op = "try_intern" /\ last.kind = "err"
      /\ uviews = EmptyBag)
     => last'.kind = "ok"

C4_ErrChangesNothingAndRetrySucceeds == [][C4_FrameStep /\ C4_RetryStep]_vars

\* C5: try_intern never fails fatally: in both modes and both builds it
\* returns a handle (possibly after suspending) or the self-contention error
\* with a tag.
C5_TryInternNeverFatal ==
  last.op = "try_intern"
    => /\ last.kind \in {"ok", "suspended", "err"}
       /\ last.kind = "err" => last.tag # {}

\* C6, as claimed: a call suspended behind views of other participants
\* returns a handle if every view is released again and again (no view stays
\* outstanding for ever). The premises keep to executions in which the
\* counts are exact, no call halts and a suspended thread holds no view
\* itself.
ViewKinds == [holder : Threads, site : Sites]

C6_EveryViewReleased ==
  \A v \in ViewKinds : []<>(v \notin BagToSet(views))

C6_CountsExact ==
  [](/\ refs = BagCardinality(views)
     /\ last.kind # "fatal"
     /\ \A t \in Threads : pc[t] # "idle" => HeldBy(t) = {})

C6_SuspendedCallReturns ==
  (C6_EveryViewReleased /\ C6_CountsExact)
    => \A t \in Threads : (pc[t] = "waiting") ~> (pc[t] = "idle")

\* C6, amended: the release that brings the global count to zero wakes every
\* suspended call (no call is left waiting with the count at zero, so no
\* wakeup is lost between the check of the count and the wait), and under
\* fair scheduling a woken call returns a handle without error.
C6_ResumeStep ==
  \A t \in Threads :
    (mode = "sync" /\ pc[t] = "notified" /\ pc'[t] # "notified")
      => (pc'[t] = "idle" /\ last'.t = t /\ last'.kind = "ok"
          /\ [str |-> last'.s, span |-> last'.span] \in handles')

C6_WokenAtZeroAndReturns ==
  /\ [](\A t \in Threads : pc[t] = "waiting" => refs > 0)
  /\ \A t \in Threads : (pc[t] = "notified") ~> (pc[t] = "idle")
  /\ [][C6_ResumeStep]_vars

\* A call that was suspended has been woken and has returned a handle for a
\* string it had to append.
C6_Witness ==
  /\ mode = "sync"
  /\ last.op \in {"intern", "try_intern"}
  /\ last.resumed
  /\ last.kind = "ok"
  /\ last.span[2] = Len(store)
  /\ last.s # <<>>
  /\ pc[last.t] = "idle"
  /\ refs = 0

\* C7: the global outstanding count equals the number of live views and the
\* sum of the per-participant counts (and is not negative).
C7_CounterIntegrity ==
  /\ mode = "sync"
     => /\ refs >= 0
        /\ refs = BagCardinality(views)
        /\ refs = SumLocal(local_refs, DOMAIN local_refs)
  /\ mode = "unsync"
     => /\ urefs >= 0
        /\ urefs = BagCardinality(uviews)

\* C8: two handles of one Interner have the same Span if and only if they
\* were returned for strings of identical content.
C8_CanonicalHandles ==
  /\ \A h1 \in handles, h2 \in handles :
       (h1.span = h2.span) <=> (h1.str = h2.str)
  /\ \A h1 \in uhandles, h2 \in uhandles :
       (h1.span = h2.span) <=> (h1.str = h2.str)

\* A string is interned again after another string was appended behind it.
C8_Witness ==
  /\ last.op \in {"intern", "try_intern"}
  /\ last.kind = "ok"
  /\ last.s # <<>>
  /\ \E h2 \in handles \cup uhandles :
       /\ h2.str # last.s
       /\ ~IsSubstring(last.s, h2.str)
       /\ h2.span[1] >= last.span[2]
       /\ h2.span[2] > h2.span[1]

\* C9: the view get_ref returns for a handle has exactly the text of the
\* string the handle was returned for, for strings of characters of any
\* encoded width.
C9_RoundTrip ==
  last.op = "get_ref" => (last.kind = "ok" /\ last.text = last.h.str)

\* C10: intern(s) leaves the buffer as long as it was if s is empty or a
\* substring of a string interned before, and otherwise appends exactly the
\* bytes of s at the old end of the buffer.
C10_Step ==
  /\ (mode = "sync" /\ last'.op \in {"intern", "try_intern"}
      /\ last'.kind = "ok")
     => IF \E h \in handles : IsSubstring(last'.s, h.str)
        THEN store' = store
        ELSE store' = store \o Encode(last'.s)
  /\ (mode = "unsync" /\ last'.op \in {"intern", "try_intern"}
      /\ last'.kind = "ok")
     => IF \E h \in uhandles : IsSubstring(last'.s, h.str)
        THEN ustore' = ustore
        ELSE ustore' = ustore \o Encode(last'.s)

C10_SubstringReuse == [][C10_Step]_vars

\* A proper substring of the only string appended so far is interned.
C10_Witness ==
  /\ last.op \in {"intern", "try_intern"}
  /\ last.kind = "ok"
  /\ last.s # <<>>
  /\ \E h \in handles \cup uhandles :
       /\ h.str # last.s
       /\ IsSubstring(last.s, h.str)
       /\ h.span[1] <= last.span[1]
       /\ Len(IF mode = "sync" THEN store ELSE ustore) = Len(Encode(h.str))

\* ---------------------------------------------------- claims C11..C20
\* The handles of the Interner in use.
Handles == IF mode = "sync" THEN handles ELSE uhandles

\* Span x lies within span y.
Within(x, y) == y[1] <= x[1] /\ x[2] <= y[2]

\* A step in which intern/try_intern returns a handle.
InternOkStep == last'.op \in {"intern", "try_intern"} /\ last'.kind = "ok"

\* C11, as claimed: once S is interned with Span [a,b), interning any
\* substring T of S returns a handle whose Span lies within [a,b). (Stated
\* for non-empty T; the empty string always has Span [0,0).)
C11_Step ==
  (InternOkStep /\ last'.s # <<>>)
    => \A hS \in Handles :
         IsSubstring(last'.s, hS.str) => Within(last'.span, hS.span)

C11_SubstringWithinRange == [][C11_Step]_vars

\* The substrings of s.
Substrings(s) ==
  {SubSeq(s, i, j) : i \in 1..(Len(s) + 1), j \in 0..Len(s)}

\* The index of the Interner in use.
Index == IF mode = "sync" THEN index ELSE uindex

\* A step in which intern/try_intern appends its string.
C11_AmendedStep ==
  (InternOkStep /\ get(Index, last'.s) = {})
    => \A T \in Substrings(last'.s) :
         /\ get(Index', T) # {}
         /\ IF get(Index, T) # {}
            THEN get(Index', T) = get(Index, T)
            ELSE \A x \in get(Index', T) : Within(x, last'.span)

\* C11, amended: when a string S is stored with Span [a,b), every substring
\* T of S that was not in the index before gets a Span within [a,b), and a
\* substring that was in the index already keeps the Span it had; interning
\* T returns the Span the index has for it.
C11_SubstringWithinFirstHolder ==
  /\ [][C11_AmendedStep]_vars
  /\ [](mode \in {"sync", "unsync"}
          => \A h \in Handles : get(Index, h.str) = {h.span})

\* A non-empty string T was interned that is a proper substring of two
\* interned strings: its Span lies within the one stored first and outside
\* the one stored later.
C11_Witness ==
  /\ last.op \in {"intern", "try_intern"}
  /\ last.kind = "ok"
  /\ last.s # <<>>
  /\ \E h0 \in Handles, hS \in Handles :
       /\ h0.str # last.s /\ hS.str # last.s
       /\ IsSubstring(last.s, h0.str) /\ IsSubstring(last.s, hS.str)
       /\ h0.span[1] < hS.span[1]
       /\ Within(last.span, h0.span)
       /\ ~Within(last.span, hS.span)

\* Spans x and y share an offset.
Overlap(x, y) == x[1] < y[2] /\ y[1] < x[2]

\* C12, as claimed: two interned strings neither of which is a substring of
\* the other have unequal handles and Spans that do not overlap.
C12_NonOverlap ==
  \A hA \in Handles, hB \in Handles :
    (~IsSubstring(hA.str, hB.str) /\ ~IsSubstring(hB.str, hA.str))
      => (hA.span # hB.span /\ ~Overlap(hA.span, hB.span))

\* C12, amended: handles of distinct strings are unequal, and the Span
\* returned for a string that had to be appended (it was in the index
\* neither as an interned string nor as a substring of one) starts at the old
\* end of the buffer, at or beyond the end of the Span of every handle
\* returned before, so it overlaps none of them.
C12_AmendedStep ==
  InternOkStep
    => /\ \A h \in Handles :
            h.str # last'.s => h.span # last'.span
       /\ (IF mode = "sync" THEN store' # store ELSE ustore' # ustore)
            => /\ last'.span[1] = Len(IF mode = "sync" THEN store ELSE ustore)
               /\ \A h \in Handles :
                    h.span[2] <= last'.span[1] /\ ~Overlap(h.span, last'.span)

C12_AppendedSpanIsFresh == [][C12_AmendedStep]_vars

\* A string was appended behind handles of non-empty strings, one of them
\* a substring shared with nothing stored at the new Span.
C12_Witness ==
  /\ last.op \in {"intern", "try_intern"}
  /\ last.kind = "ok"
  /\ last.span[2] > last.span[1]
  /\ last.span[1] > 0
  /\ \E h \in Handles, g \in Handles :
       /\ h.str # g.str
       /\ h.span[2] > h.span[1] /\ g.span[2] > g.span[1]
       /\ Overlap(h.span, g.span)
       /\ h.span[2] <= last.span[1]
       /\ g.span[2] <= last.span[1]

\* The call-site tags of the live views of the participant the last call
\* was made by.
SitesHeldByCaller ==
  IF mode = "sync" THEN {v.site : v \in HeldBy(last.t)}
  ELSE {v.site : v \in BagToSet(uviews)}

\* C13: whenever intern halts or try_intern returns the self-contention
\* error, the call-site tag reported is the acquisition site of a view that
\* is still outstanding and held by the caller. (Stated for builds with
\* debug assertions and for callers that do hold a live view.)
C13_DiagnosticAccuracy ==
  (/\ debug
   /\ last.op \in {"intern", "try_intern"}
   /\ last.kind \in {"fatal", "err"}
   /\ SitesHeldByCaller # {})
    => (last.tag # {} /\ last.tag \subseteq SitesHeldByCaller)

\* The reference for lookup: the empty sequence has [0,0); a sequence that
\* is a substring of no inserted key has nothing; otherwise the span is that
\* of the leftmost occurrence in the earliest-inserted key containing it.
Leftmost(T, S) ==
  CHOOSE p \in 0..(Len(S) - Len(T)) :
    /\ SubSeq(S, p + 1, p + Len(T)) = T
    /\ \A q \in 0..(p - 1) : SubSeq(S, q + 1, q + Len(T)) # T

RefLookup(ins, T) ==
  IF T = <<>> THEN {<<0, 0>>}
  ELSE LET js == {j \in 1..Len(ins) : IsSubstring(T, ins[j][1])}
       IN  IF js = {} THEN {}
           ELSE LET j == CHOOSE k \in js : \A m \in js : k <= m
                    p == Leftmost(T, ins[j][1])
                IN  {<<ins[j][2] + p, ins[j][2] + p + Len(T)>>}

\* The keys looked up: one character longer than the keys inserted.
LookupKeys == UNION {[1..n -> Chars] : n \in 0..(MaxLen + 1)}

C14_InsertStep ==
  (mode = "trie" /\ last'.op = "insert" /\ inserted' # inserted
   /\ get(trie, last'.s) = {})
    => last'.span = <<inserted'[Len(inserted')][2],
                      inserted'[Len(inserted')][2] + Len(last'.s)>>

\* C14: after any sequence of insert(S_i, o_i), lookup(T) is nothing for a
\* non-empty T that is a substring of no S_i, [0,0) for the empty sequence,
\* and otherwise [o_j + p, o_j + p + |T|) for the earliest-inserted S_j
\* containing T and the leftmost position p of T in S_j; insert returns
\* [o, o + |S|) for a sequence not present before.
C14_LookupMatchesReference ==
  /\ [](mode = "trie"
          => /\ \A T \in LookupKeys : get(trie, T) = RefLookup(inserted, T)
             /\ last.op = "get"
                  => (IF last.kind = "some" THEN {last.span} ELSE {})
                       = RefLookup(inserted, last.s))
  /\ [][C14_InsertStep]_vars

\* A lookup returned the span of an occurrence at a position other than the
\* start of the first of two distinct keys that both contain the sequence.
C14_Witness ==
  /\ mode = "trie"
  /\ last.op = "get"
  /\ last.kind = "some"
  /\ last.s # <<>>
  /\ Len(inserted) = 2
  /\ inserted[1][1] # inserted[2][1]
  /\ IsSubstring(last.s, inserted[1][1])
  /\ IsSubstring(last.s, inserted[2][1])
  /\ last.span[1] > inserted[1][2]
  /\ last.span[1] # inserted[2][2]

\* Index new keeps every node of index old, with its span.
KeepsNodes(old, new) ==
  \/ new = old
  \/ /\ \A q \in DOMAIN old : q \in DOMAIN new /\ new[q] = old[q]
     /\ \A T \in LookupKeys : get(old, T) # {} => get(new, T) = get(old, T)

C15_Step ==
  /\ KeepsNodes(index, index')
  /\ KeepsNodes(uindex, uindex')
  /\ KeepsNodes(trie, trie')

\* C15: once lookup(T) returns a Span, it returns the same Span in every
\* later state; the root's span is [0,0) forever and no node of an index is
\* ever removed.
C15_FirstWriterWins ==
  /\ [](index[<<>>] = <<0, 0>> /\ uindex[<<>>] = <<0, 0>> /\ trie[<<>>] = <<0, 0>>)
  /\ [][C15_Step]_vars

\* A key already in the Trie as part of an earlier key was inserted again at
\* another offset, and insert returned the Span registered first.
C15_Witness ==
  /\ mode = "trie"
  /\ last.op = "insert"
  /\ last.s # <<>>
  /\ Len(inserted) = 2
  /\ inserted[2][1] = last.s
  /\ inserted[1][1] # last.s
  /\ IsSubstring(last.s, inserted[1][1])
  /\ last.span # <<inserted[2][2], inserted[2][2] + Len(last.s)>>
  /\ get(trie, last.s) = {last.span}
  /\ trie[<<>>] = <<0, 0>>

IsPrefix(s, u) == Len(s) <= Len(u) /\ SubSeq(u, 1, Len(s)) = s

\* The buffer of the Interner in use.
Buffer == IF mode = "sync" THEN store ELSE ustore

C16_Step ==
  /\ IsPrefix(store, store')
  /\ IsPrefix(ustore, ustore')
  /\ (\/ last'.op \in {"get_ref", "drop", "send"}
      \/ (last'.op = "try_intern" /\ last'.kind \in {"err", "fatal"})
      \/ (InternOkStep /\ get(Index, last'.s) # {}))
     => UNCHANGED <<store, index, ustore, uindex>>

\* C16: in every step the old buffer contents are a prefix of the new ones,
\* and get_ref, the release of a view, a failed try_intern and an
\* intern/try_intern that finds its string in the index leave the buffer and
\* the index unchanged.
C16_AppendOnly == [][C16_Step]_vars

\* A try_intern failed for a string that is not in the index, with a
\* non-empty buffer and a live view.
C16_Witness ==
  /\ mode \in {"sync", "unsync"}
  /\ last.op = "try_intern"
  /\ last.kind = "err"
  /\ get(Index, last.s) = {}
  /\ Len(Buffer) > 0
  /\ (IF mode = "sync" THEN BagCardinality(views) ELSE BagCardinality(uviews)) > 0

C17_Step ==
  (mode = "sync" /\ last'.op \in {"get_ref", "drop"})
    => (last'.kind # "suspended" /\ pc'[last'.t] = "idle")

\* C17: a call suspended in intern/try_intern does not hold the mutex; in
\* every state where a participant is suspended, every get_ref and every
\* release of a view by another participant can take its step, and get_ref
\* and release end in the step they are called in whatever the count is.
C17_SuspendedHoldsNoLock ==
  /\ [](\A t \in Threads :
          pc[t] \in {"waiting", "notified"}
            => /\ lock # t
               /\ \A u \in Threads \ {t} :
                    pc[u] = "idle"
                      => /\ \A v \in HeldBy(u) : ENABLED drop(u, v)
                         /\ \A h \in handles, site \in Sites :
                              refs < MaxRefs => ENABLED get_ref(u, h, site))
  /\ [][C17_Step]_vars

\* While one thread is suspended another one has taken a second view.
C17_Witness ==
  /\ mode = "sync"
  /\ \E t \in Threads : pc[t] = "waiting"
  /\ last.op = "get_ref"
  /\ last.kind = "ok"
  /\ pc[last.t] = "idle"
  /\ refs = 2

\* C18: the release of a live view never fails: the releasing participant's
\* personal count entry is present and nonzero and the global count is
\* nonzero, also when the view was acquired by another thread.
C18_ReleaseNeverFails ==
  last.op = "drop" => last.kind = "ok"

\* C19: for every sequence of intern, try_intern, get_ref and release made
\* by one participant, the sync::Interner and the unsync::Interner give the
\* same outcome at every call (the same Span, or the same error or fatal
\* result), have the same buffer contents and the same outstanding-view
\* count after every step, and the sync::Interner never suspends.
C19_SingleOwnerIsSpecialization ==
  mode = "pair"
    => /\ last.kind = last.ukind
       /\ last.span = last.uspan
       /\ last.text = last.utext
       /\ last.kind = "err" => last.tag = last.utag
       /\ store = ustore
       /\ refs = urefs
       /\ last.kind # "suspended"
       /\ pc[Caller] = "idle"

\* C20: in concurrent mode no participant is suspended in intern/try_intern
\* while it is itself the holder of a live view.
C20_NoSelfWait ==
  mode = "sync"
    => \A t \in Threads : pc[t] \in {"waiting", "notified"} => HeldBy(t) = {}

====
